---- MODULE Spec2Model ----
(***************************************************************************)
(* Backend abstraction and vector normalizer of the nearest / vicinity     *)
(* package: HNSWBackend (mutable graph backend, hnsw.py),                  *)
(* PyNNDescentBackend (static graph backend, pynndescent.py) and           *)
(* normalize / normalize_or_copy (utils.py).                               *)
(*                                                                         *)
(* Numbers.  A float is an integer count of units of 1e-9, so that numpy's *)
(* default tolerances (atol 1e-8, rtol 1e-5) keep their real size.         *)
(* A row vector is a multiple of a coordinate axis, [axis, val]: its       *)
(* Euclidean norm is |val| exactly and val / norm is +1 or -1 exactly.     *)
(* An array is [ndim, cols, rows]; a 1-D array holds its one vector in     *)
(* rows[1].                                                                *)
(***************************************************************************)
EXTENDS Integers, Sequences, FiniteSets, TLC

VARIABLES
    backend,    \* the Backend object in use (NoBackend before construction)
    disk,       \* the directory save() writes and load() reads
    ret,        \* what the last call did: its name, arguments, error, result
    history     \* bookkeeping about the calls made on `backend`

vars == <<backend, disk, ret, history>>

----------------------------------------------------------------------------
(* Bounds of the model *)

MaxItems == 2       \* rows of the batch given to from_vectors
MaxK == 2           \* k of a query
MaxBatch == 2       \* rows of a batch given to the normalizer

----------------------------------------------------------------------------
(* Floats *)

ONE == 10 ^ 9
ATol == ONE \div (10 ^ 8)
RTolInv == 10 ^ 5

Abs(x) == IF x < 0 THEN 0 - x ELSE x

Sign(x) == IF x < 0 THEN 0 - 1 ELSE IF x = 0 THEN 0 ELSE 1

isclose(a, b) == Abs(a - b) <= ATol + (Abs(b) \div RTolInv)

None == <<>>

ZeroRow == [axis |-> 1, val |-> 0]

Row(a, v) == IF v = 0 THEN ZeroRow ELSE [axis |-> a, val |-> v]

RowNorm(row) == Abs(row.val)

RowDiv(row, n) ==
    IF n = Abs(row.val)
    THEN Row(row.axis, Sign(row.val) * ONE)
    ELSE Row(row.axis, Sign(row.val) * ((Abs(row.val) \div n) * ONE
                                        + (Abs(row.val) % n) * (ONE \div n)))

linalg_norm(vectors) == [i \in DOMAIN vectors.rows |-> RowNorm(vectors.rows[i])]

zeros_like(vectors) == [vectors EXCEPT !.rows = [i \in DOMAIN vectors.rows |-> ZeroRow]]

----------------------------------------------------------------------------
(* utils.py *)

normalize(vectors, norms) ==
    IF vectors.ndim = 1
    THEN LET norm_float == RowNorm(vectors.rows[1]) IN
         IF isclose(norm_float, 0)
         THEN zeros_like(vectors)
         ELSE [vectors EXCEPT !.rows = <<RowDiv(vectors.rows[1], norm_float)>>]
    ELSE LET norm == IF norms = None THEN linalg_norm(vectors) ELSE norms IN
         IF \E i \in DOMAIN norm : isclose(norm[i], 0)
         THEN [vectors EXCEPT !.rows =
                  [i \in DOMAIN vectors.rows |->
                      IF norm[i] > 0
                      THEN RowDiv(vectors.rows[i], norm[i])
                      ELSE ZeroRow]]
         ELSE [vectors EXCEPT !.rows =
                  [i \in DOMAIN vectors.rows |-> RowDiv(vectors.rows[i], norm[i])]]

\* normalize_or_copy with the zero rows left in the unit-length test.
normalize_or_copy_unmasked(vectors) ==
    LET norms == linalg_norm(vectors)
        all_unit_length == \A i \in DOMAIN norms : isclose(norms[i], ONE)
    IN  IF all_unit_length
        THEN [is_input |-> TRUE, array |-> vectors]
        ELSE [is_input |-> FALSE, array |-> normalize(vectors, norms)]

normalize_or_copy(vectors) ==
    LET norms == linalg_norm(vectors)
        all_unit_length == \A i \in DOMAIN norms : norms[i] # 0 => isclose(norms[i], ONE)
    IN  IF all_unit_length
        THEN [is_input |-> TRUE, array |-> vectors]
        ELSE [is_input |-> FALSE, array |-> normalize(vectors, norms)]

----------------------------------------------------------------------------
(* The index capability of hnsw.py: hnswlib.Index, as far as the backend   *)
(* uses it.  An index is [space, dim, max_elements, data, deleted]; the     *)
(* item with label l is data[l + 1].  Distances are counted in quarters:    *)
(* a coordinate is rounded to a multiple of 1/2 before it is multiplied.    *)

NoError == "ok"

Half == ONE \div 2

Q(v) == v \div Half

Inf == 2 ^ 30

Min(a, b) == IF a < b THEN a ELSE b

\* The coordinates an index of dimension dim reads of a stored row.
Visible(row, dim) == IF row.axis > dim THEN ZeroRow ELSE row

Dot(a, b) == IF a.axis = b.axis THEN Q(a.val) * Q(b.val) ELSE 0

SqL2(a, b) ==
    IF a.axis = b.axis
    THEN (Q(a.val) - Q(b.val)) * (Q(a.val) - Q(b.val))
    ELSE Q(a.val) * Q(a.val) + Q(b.val) * Q(b.val)

\* hnswlib scales by 1 / (norm + 1e-30): the zero vector stays zero.
hnsw_unit(row) == IF RowNorm(row) = 0 THEN ZeroRow ELSE RowDiv(row, RowNorm(row))

hnsw_distance(space, a, b) ==
    IF space = "l2" THEN SqL2(a, b)
    ELSE IF space = "ip" THEN 4 - Dot(a, b)
    ELSE 4 - Dot(hnsw_unit(a), hnsw_unit(b))

HnswIndex(space, dim) ==
    [space |-> space, dim |-> dim, max_elements |-> 0, data |-> <<>>, deleted |-> {}]

init_index(index, max_elements) == [index EXCEPT !.max_elements = max_elements]

get_current_count(index) == Len(index.data)

\* Rows are added one by one; the first that finds the index full raises.
add_items(index, vectors) ==
    IF vectors.cols # index.dim
    THEN [index |-> index, err |-> "RuntimeError"]
    ELSE LET n == Len(vectors.rows)
             fit == Min(n, index.max_elements - Len(index.data))
             stored(i) == IF index.space = "cosine"
                          THEN hnsw_unit(vectors.rows[i])
                          ELSE vectors.rows[i]
         IN  [index |-> [index EXCEPT !.data = @ \o [i \in 1..fit |-> stored(i)]],
              err |-> IF fit < n THEN "RuntimeError" ELSE NoError]

mark_deleted(index, label) ==
    IF label \notin 0..(Len(index.data) - 1) \/ label \in index.deleted
    THEN [index |-> index, err |-> "RuntimeError"]
    ELSE [index |-> [index EXCEPT !.deleted = @ \cup {label}], err |-> NoError]

LiveLabels(index) == (0..(Len(index.data) - 1)) \ index.deleted

RowDistances(index, q, labels) ==
    [j \in DOMAIN labels |->
        hnsw_distance(index.space, q, Visible(index.data[labels[j] + 1], index.dim))]

IsAscending(d) == \A j \in DOMAIN d : j > 1 => d[j - 1] <= d[j]

IsInjective(f) == \A i, j \in DOMAIN f : f[i] = f[j] => i = j

\* What an approximate search of k neighbours of q may return: k different
\* live labels, nearest first.  Which k it finds is the engine's business.
knn_candidates(index, q, k) ==
    {s \in [1..k -> LiveLabels(index)] :
        IsInjective(s) /\ IsAscending(RowDistances(index, q, s))}

knn_fails(index, vectors, k) ==
    vectors.cols # index.dim \/ k > Cardinality(LiveLabels(index))

\* The searches the engine may answer a batch with, one per query row.
RECURSIVE knn_row_picks(_, _, _)
knn_row_picks(index, rows, k) ==
    IF rows = <<>> THEN {<<>>}
    ELSE {<<s>> \o rest : s \in knn_candidates(index, Head(rows), k),
                          rest \in knn_row_picks(index, Tail(rows), k)}

knn_picks(index, vectors, k) ==
    IF knn_fails(index, vectors, k) THEN {<<>>} ELSE knn_row_picks(index, vectors.rows, k)

knn_query(index, vectors, k, pick) ==
    IF knn_fails(index, vectors, k)
    THEN [err |-> "RuntimeError", indices |-> <<>>, distances |-> <<>>]
    ELSE [err |-> NoError,
          indices |-> [i \in DOMAIN vectors.rows |-> pick[i]],
          distances |-> [i \in DOMAIN vectors.rows |->
                            RowDistances(index, vectors.rows[i], pick[i])]]

save_index(index) ==
    [max_elements |-> index.max_elements, data |-> index.data, deleted |-> index.deleted]

load_index(index, file) ==
    [index EXCEPT !.max_elements = file.max_elements,
                  !.data = file.data,
                  !.deleted = file.deleted]

----------------------------------------------------------------------------
(* base.py: the configuration record on disk *)

Missing == [missing |-> TRUE]

dump(arguments) == [k \in DOMAIN arguments |-> arguments[k]]

\* cls(**json.load(f)): an unknown key is a TypeError, as is a missing
\* field that has no default.
args_load(file, fields, required, defaults) ==
    IF file = Missing THEN [err |-> "FileNotFoundError", arguments |-> defaults]
    ELSE IF ~(DOMAIN file \subseteq fields) \/ ~(required \subseteq DOMAIN file)
    THEN [err |-> "TypeError", arguments |-> defaults]
    ELSE [err |-> NoError,
          arguments |-> [k \in fields |-> IF k \in DOMAIN file THEN file[k] ELSE defaults[k]]]

----------------------------------------------------------------------------
(* hnsw.py *)

ef_construction_default == 200
m_default == 16

HNSWFields == {"dim", "space", "ef_construction", "m"}

HNSWDefaults ==
    [dim |-> 0, space |-> "cosine", ef_construction |-> ef_construction_default,
     m |-> m_default]

HNSWArgs(dim, space, ef_construction, m) ==
    [dim |-> dim, space |-> space, ef_construction |-> ef_construction, m |-> m]

HNSWBackend(index, arguments) ==
    [backend_type |-> "HNSW", index |-> index, arguments |-> arguments]

\* from_vectors with the capacity one short of the batch.
HNSW_from_vectors_short(vectors, dim, space, ef_construction, m) ==
    LET index == add_items(init_index(HnswIndex(space, vectors.cols),
                                      Len(vectors.rows) - 1),
                           vectors).index
    IN  HNSWBackend(index, HNSWArgs(dim, space, ef_construction, m))

HNSW_from_vectors(vectors, dim, space, ef_construction, m) ==
    LET index == add_items(init_index(HnswIndex(space, vectors.cols), Len(vectors.rows)),
                           vectors).index
    IN  HNSWBackend(index, HNSWArgs(dim, space, ef_construction, m))

HNSW_dim(b) == b.index.dim

HNSW_len(b) == get_current_count(b.index)

HNSW_load(files) ==
    LET a == args_load(files.arguments_json, HNSWFields, {"dim"}, HNSWDefaults) IN
    IF a.err # NoError THEN [err |-> a.err, backend |-> Missing]
    ELSE IF files.index_bin = Missing THEN [err |-> "RuntimeError", backend |-> Missing]
    ELSE [err |-> NoError,
          backend |-> HNSWBackend(load_index(HnswIndex(a.arguments.space, a.arguments.dim),
                                             files.index_bin),
                                  a.arguments)]

HNSW_save(b, files) ==
    [files EXCEPT !.index_bin = save_index(b.index),
                  !.arguments_json = dump(b.arguments)]

HNSW_query(b, vectors, k, pick) ==
    LET r == knn_query(b.index, vectors, k, pick) IN
    [err |-> r.err,
     handed |-> vectors,
     val |-> [i \in DOMAIN r.indices |->
                 [indices |-> r.indices[i], distances |-> r.distances[i]]]]

HNSW_insert(b, vectors) ==
    LET r == add_items(b.index, vectors) IN
    [err |-> r.err, backend |-> [b EXCEPT !.index = r.index]]

RECURSIVE mark_all(_, _)
mark_all(index, indices) ==
    IF indices = <<>> THEN [index |-> index, err |-> NoError]
    ELSE LET r == mark_deleted(index, Head(indices)) IN
         IF r.err # NoError THEN r ELSE mark_all(r.index, Tail(indices))

\* delete with the loop ending one index early.
HNSW_delete_drops_last(b, indices) ==
    LET r == mark_all(b.index, SubSeq(indices, 1, Len(indices) - 1)) IN
    [err |-> r.err, backend |-> [b EXCEPT !.index = r.index]]

HNSW_delete(b, indices) ==
    LET r == mark_all(b.index, indices) IN
    [err |-> r.err, backend |-> [b EXCEPT !.index = r.index]]

OverFetch == 100

\* x[y < threshold]
RECURSIVE Below(_, _, _)
Below(xs, ys, threshold) ==
    IF xs = <<>> THEN <<>>
    ELSE (IF Head(ys) < threshold THEN <<Head(xs)>> ELSE <<>>)
         \o Below(Tail(xs), Tail(ys), threshold)

HNSW_threshold(b, vectors, threshold, pick) ==
    LET r == HNSW_query(b, vectors, OverFetch, pick) IN
    [err |-> r.err,
     handed |-> r.handed,
     val |-> [i \in DOMAIN r.val |-> Below(r.val[i].indices, r.val[i].distances, threshold)]]

----------------------------------------------------------------------------
(* The index capability of pynndescent.py: pynndescent.NNDescent.  An      *)
(* index is [_raw_data, dim, n_neighbors, metric, _neighbor_graph]; the     *)
(* neighbour graph is known by where it came from.                          *)

RECURSIVE ISqrt(_)
ISqrt(n) == IF n < 4 THEN (IF n = 0 THEN 0 ELSE 1)
            ELSE LET r == 2 * ISqrt(n \div 4) IN
                 IF (r + 1) * (r + 1) <= n THEN r + 1 ELSE r

Manhattan(a, b) ==
    IF a.axis = b.axis THEN Abs(Q(a.val) - Q(b.val)) ELSE Abs(Q(a.val)) + Abs(Q(b.val))

nnd_distance(metric, a, b) ==
    IF metric = "euclidean" THEN ISqrt(4 * SqL2(a, b))
    ELSE IF metric = "manhattan" THEN 2 * Manhattan(a, b)
    ELSE IF RowNorm(a) = 0 /\ RowNorm(b) = 0 THEN 0
    ELSE IF RowNorm(a) = 0 \/ RowNorm(b) = 0 THEN 4
    ELSE 4 - Dot(hnsw_unit(a), hnsw_unit(b))

NNDescent(vectors, n_neighbors, metric) ==
    [_raw_data |-> vectors.rows, dim |-> vectors.cols, n_neighbors |-> n_neighbors,
     metric |-> metric, _neighbor_graph |-> [source |-> "built"]]

NndLabels(index) == 0..(Len(index._raw_data) - 1)

NndDistances(index, q, labels) ==
    [j \in DOMAIN labels |->
        IF labels[j] < 0 THEN Inf
        ELSE nnd_distance(index.metric, q, index._raw_data[labels[j] + 1])]

\* k columns per query row: different items nearest first, then, where the
\* index holds fewer than k items, the filler label -1 at infinite distance.
nnd_candidates(index, q, k) ==
    LET found == Min(k, Len(index._raw_data)) IN
    {s \o [j \in 1..(k - found) |-> 0 - 1] :
        s \in {t \in [1..found -> NndLabels(index)] :
                  IsInjective(t) /\ IsAscending(NndDistances(index, q, t))}}

nnd_fails(index, vectors) == vectors.cols # index.dim

RECURSIVE nnd_row_picks(_, _, _)
nnd_row_picks(index, rows, k) ==
    IF rows = <<>> THEN {<<>>}
    ELSE {<<s>> \o rest : s \in nnd_candidates(index, Head(rows), k),
                          rest \in nnd_row_picks(index, Tail(rows), k)}

nnd_picks(index, vectors, k) ==
    IF nnd_fails(index, vectors) THEN {<<>>} ELSE nnd_row_picks(index, vectors.rows, k)

nnd_query(index, vectors, k, pick) ==
    IF nnd_fails(index, vectors)
    THEN [err |-> "ValueError", indices |-> <<>>, distances |-> <<>>]
    ELSE [err |-> NoError,
          indices |-> [i \in DOMAIN vectors.rows |-> pick[i]],
          distances |-> [i \in DOMAIN vectors.rows |->
                            NndDistances(index, vectors.rows[i], pick[i])]]

----------------------------------------------------------------------------
(* pynndescent.py *)

n_neighbors_default == 15

PyNNDescentFields == {"n_neighbors", "metric"}

PyNNDescentDefaults == [n_neighbors |-> n_neighbors_default, metric |-> "cosine"]

PyNNDescentArgs(n_neighbors, metric) == [n_neighbors |-> n_neighbors, metric |-> metric]

PyNNDescentBackend(index, arguments) ==
    [backend_type |-> "PYNNDESCENT", index |-> index, arguments |-> arguments]

PyNN_from_vectors(vectors, n_neighbors, metric) ==
    PyNNDescentBackend(NNDescent(vectors, n_neighbors, metric),
                       PyNNDescentArgs(n_neighbors, metric))

PyNN_len(b) == Len(b.index._raw_data)

PyNN_dim(b) == b.index.dim

PyNN_query(b, vectors, k, pick) ==
    LET normalized_vectors == normalize_or_copy(vectors).array
        r == nnd_query(b.index, normalized_vectors, k, pick)
    IN  [err |-> r.err,
         handed |-> normalized_vectors,
         val |-> [i \in DOMAIN r.indices |->
                     [indices |-> r.indices[i], distances |-> r.distances[i]]]]

\* insert that rebuilds the index over the old and the new rows.
PyNN_insert_appends(b, vectors) ==
    [err |-> NoError,
     backend |-> [b EXCEPT !.index._raw_data = @ \o vectors.rows]]

PyNN_insert(b, vectors) == [err |-> "NotImplementedError", backend |-> b]

PyNN_delete(b, indices) == [err |-> "NotImplementedError", backend |-> b]

PyNN_threshold(b, vectors, threshold, pick) ==
    LET normalized_vectors == normalize_or_copy(vectors).array
        r == nnd_query(b.index, normalized_vectors, OverFetch, pick)
    IN  [err |-> r.err,
         handed |-> normalized_vectors,
         val |-> [i \in DOMAIN r.indices |->
                     Below(r.indices[i], r.distances[i], threshold)]]

PyNN_save(b, files) ==
    [files EXCEPT !.arguments_json = dump(b.arguments),
                  !.vectors_npy = [cols |-> b.index.dim, rows |-> b.index._raw_data],
                  !.neighbor_graph_npy = b.index._neighbor_graph]

\* graph_exists: whether neighbor_graph.npy is still in the directory.
PyNN_load(files, graph_exists) ==
    LET a == args_load(files.arguments_json, PyNNDescentFields, {}, PyNNDescentDefaults) IN
    IF a.err # NoError THEN [err |-> a.err, backend |-> Missing]
    ELSE IF files.vectors_npy = Missing
    THEN [err |-> "FileNotFoundError", backend |-> Missing]
    ELSE LET vectors == [ndim |-> 2, cols |-> files.vectors_npy.cols,
                         rows |-> files.vectors_npy.rows]
             index == NNDescent(vectors, a.arguments.n_neighbors, a.arguments.metric)
         IN  [err |-> NoError,
              backend |-> PyNNDescentBackend(
                              IF graph_exists
                              THEN [index EXCEPT !._neighbor_graph = [source |-> "file"]]
                              ELSE index,
                              a.arguments)]

----------------------------------------------------------------------------
(* Inputs *)

Cols == {1, 2}

Spaces == {"cosine", "l2", "ip"}

Metrics == {"cosine", "euclidean", "manhattan"}

PoolRow(i, c) ==
    CASE i = 1 -> Row(1, ONE)
      [] i = 2 -> Row(c, 2 * ONE)
      [] i = 3 -> ZeroRow
      [] OTHER -> Row(1, 0 - ONE)

\* The batch of n rows and c columns.
Data(c, n) == [ndim |-> 2, cols |-> c, rows |-> [i \in 1..n |-> PoolRow(i, c)]]

Batches == {Data(c, n) : c \in Cols, n \in 1..MaxItems}

InsertBatches == {Data(c, 1) : c \in Cols} \cup {Data(1, 2)}

Probes ==
    {[ndim |-> 2, cols |-> c, rows |-> <<Row(1, 2 * ONE)>>] : c \in Cols}
    \cup {[ndim |-> 2, cols |-> 1, rows |-> <<Row(1, ONE), ZeroRow>>]}

Thresholds == {3}

IndexLists ==
    {<<i>> : i \in 0..MaxItems} \cup {<<i, i>> : i \in 0..MaxItems} \cup {<<i, i + 1>> : i \in 0..MaxItems}

NoFiles ==
    [arguments_json |-> Missing, index_bin |-> Missing, vectors_npy |-> Missing,
     neighbor_graph_npy |-> Missing]

Call(op, args, err, val, handed) ==
    [op |-> op, args |-> args, err |-> err, val |-> val, handed |-> handed]

NewHistory == [deleted_ok |-> {}, saved_from |-> Missing, saved_deleted_ok |-> {}]

IsHNSW == backend.backend_type = "HNSW"

IsPyNN == backend.backend_type = "PYNNDESCENT"

----------------------------------------------------------------------------
(* The backend in use: construction, then any sequence of calls *)

InitHNSW ==
    \E vectors \in Batches, space \in Spaces :
      \E dim \in Cols :
        /\ backend = HNSW_from_vectors(vectors, dim, space,
                                       ef_construction_default, m_default)
        /\ ret = Call("from_vectors", [vectors |-> vectors, dim |-> dim], NoError, None, None)

InitPyNN ==
    \E vectors \in Batches, metric \in Metrics :
        /\ backend = PyNN_from_vectors(vectors, n_neighbors_default, metric)
        /\ ret = Call("from_vectors", [vectors |-> vectors], NoError, None, None)

Init ==
    /\ InitHNSW \/ InitPyNN
    /\ disk = NoFiles
    /\ history = NewHistory

QueryHNSW ==
    /\ IsHNSW
    /\ \E vectors \in Probes, k \in 1..MaxK :
         \E pick \in knn_picks(backend.index, vectors, k) :
            LET r == HNSW_query(backend, vectors, k, pick) IN
            ret' = Call("query", [vectors |-> vectors, k |-> k], r.err, r.val, r.handed)
    /\ UNCHANGED <<backend, disk, history>>

ThresholdHNSW ==
    /\ IsHNSW
    /\ \E vectors \in Probes, threshold \in Thresholds :
         \E pick \in knn_picks(backend.index, vectors, OverFetch) :
            LET r == HNSW_threshold(backend, vectors, threshold, pick) IN
            ret' = Call("threshold", [vectors |-> vectors, threshold |-> threshold],
                        r.err, r.val, r.handed)
    /\ UNCHANGED <<backend, disk, history>>

InsertHNSW ==
    /\ IsHNSW
    /\ \E vectors \in InsertBatches :
         LET r == HNSW_insert(backend, vectors) IN
         /\ backend' = r.backend
         /\ ret' = Call("insert", [vectors |-> vectors], r.err, None, None)
    /\ UNCHANGED <<disk, history>>

DeleteHNSW ==
    /\ IsHNSW
    /\ \E indices \in IndexLists :
         LET r == HNSW_delete(backend, indices) IN
         /\ backend' = r.backend
         /\ ret' = Call("delete", None, r.err, None, None)
         /\ history' = IF r.err = NoError
                       THEN [history EXCEPT !.deleted_ok =
                                @ \cup {indices[j] : j \in DOMAIN indices}]
                       ELSE history
    /\ UNCHANGED disk

SaveHNSW ==
    /\ IsHNSW
    /\ disk' = HNSW_save(backend, disk)
    /\ ret' = Call("save", None, NoError, None, None)
    /\ history' = [history EXCEPT !.saved_from = backend,
                                  !.saved_deleted_ok = history.deleted_ok]
    /\ UNCHANGED backend

LoadHNSW ==
    LET r == HNSW_load(disk) IN
    /\ ret' = Call("load", None, r.err, None, None)
    /\ backend' = IF r.err = NoError THEN r.backend ELSE backend
    /\ history' = IF r.err = NoError
                  THEN [history EXCEPT !.deleted_ok = history.saved_deleted_ok]
                  ELSE history
    /\ UNCHANGED disk

QueryPyNN ==
    /\ IsPyNN
    /\ \E vectors \in Probes, k \in 1..MaxK :
         \E pick \in nnd_picks(backend.index, normalize_or_copy(vectors).array, k) :
            LET r == PyNN_query(backend, vectors, k, pick) IN
            ret' = Call("query", [vectors |-> vectors, k |-> k], r.err, r.val, r.handed)
    /\ UNCHANGED <<backend, disk, history>>

ThresholdPyNN ==
    /\ IsPyNN
    /\ \E vectors \in Probes, threshold \in Thresholds :
         \E pick \in nnd_picks(backend.index, normalize_or_copy(vectors).array, OverFetch) :
            LET r == PyNN_threshold(backend, vectors, threshold, pick) IN
            ret' = Call("threshold", [vectors |-> vectors, threshold |-> threshold],
                        r.err, r.val, r.handed)
    /\ UNCHANGED <<backend, disk, history>>

InsertPyNN ==
    /\ IsPyNN
    /\ \E vectors \in InsertBatches :
         LET r == PyNN_insert(backend, vectors) IN
         /\ backend' = r.backend
         /\ ret' = Call("insert", [vectors |-> vectors], r.err, None, None)
    /\ UNCHANGED <<disk, history>>

DeletePyNN ==
    /\ IsPyNN
    /\ \E indices \in IndexLists :
         LET r == PyNN_delete(backend, indices) IN
         /\ backend' = r.backend
         /\ ret' = Call("delete", None, r.err, None, None)
    /\ UNCHANGED <<disk, history>>

SavePyNN ==
    /\ IsPyNN
    /\ disk' = PyNN_save(backend, disk)
    /\ ret' = Call("save", None, NoError, None, None)
    /\ history' = [history EXCEPT !.saved_from = backend,
                                  !.saved_deleted_ok = history.deleted_ok]
    /\ UNCHANGED backend

LoadPyNN ==
    \E graph_exists \in (IF disk.neighbor_graph_npy = Missing THEN {FALSE} ELSE BOOLEAN) :
        LET r == PyNN_load(disk, graph_exists) IN
        /\ ret' = Call("load", [graph_exists |-> graph_exists], r.err, None, None)
        /\ backend' = IF r.err = NoError THEN r.backend ELSE backend
        /\ history' = IF r.err = NoError
                      THEN [history EXCEPT !.deleted_ok = history.saved_deleted_ok]
                      ELSE history
        /\ UNCHANGED disk

Next ==
    \/ QueryHNSW
    \/ ThresholdHNSW
    \/ InsertHNSW
    \/ DeleteHNSW
    \/ SaveHNSW
    \/ LoadHNSW
    \/ QueryPyNN
    \/ ThresholdPyNN
    \/ InsertPyNN
    \/ DeletePyNN
    \/ SavePyNN
    \/ LoadPyNN

Spec == Init /\ [][Next]_vars

----------------------------------------------------------------------------
(* The normalizer on its own: any call of normalize or normalize_or_copy *)

Tiny == ATol \div 2

NearOne == ONE + (ONE \div (2 * RTolInv))

NormVals == {0, Tiny, ONE, NearOne, 2 * ONE, 0 - ONE}

NormRows(c) == {Row(a, v) : a \in 1..c, v \in NormVals}

NormArrays ==
    UNION {{[ndim |-> 1, cols |-> c, rows |-> <<r>>] : r \in NormRows(c)}
           \cup UNION {{[ndim |-> 2, cols |-> c, rows |-> rows] :
                           rows \in [1..n -> NormRows(c)]} : n \in 1..MaxBatch}
           : c \in Cols}

\* The caller holds an array; one call is made on it.
InitNorm ==
    /\ backend = Missing
    /\ disk = NoFiles
    /\ history = NewHistory
    /\ \E vectors \in NormArrays :
         ret = Call("input", [vectors |-> vectors], NoError, None, None)

Normalize ==
    /\ ret.op = "input"
    /\ \E precomputed \in BOOLEAN :
         LET vectors == ret.args.vectors
             norms == IF precomputed THEN linalg_norm(vectors) ELSE None
         IN  ret' = Call("normalize", [vectors |-> vectors, norms |-> norms], NoError,
                         normalize(vectors, norms), None)
    /\ UNCHANGED <<backend, disk, history>>

NormalizeOrCopy ==
    /\ ret.op = "input"
    /\ LET vectors == ret.args.vectors IN
       ret' = Call("normalize_or_copy", [vectors |-> vectors], NoError,
                   normalize_or_copy(vectors), None)
    /\ UNCHANGED <<backend, disk, history>>

NextNorm == Normalize \/ NormalizeOrCopy

SpecNorm == InitNorm /\ [][NextNorm]_vars

----------------------------------------------------------------------------
(* Claims about the mutable graph backend (hnsw.py) *)

Range(f) == {f[j] : j \in DOMAIN f}

\* C1: once delete([i]) has returned on a mutable graph backend, no later
\* query returns i among its neighbour indices, whatever calls came between
\* (queries, inserts, other deletes, a save followed by a load).
C1_DeletedNeverReturned ==
    (IsHNSW /\ ret.op = "query" /\ ret.err = NoError)
        => \A i \in history.deleted_ok, r \in DOMAIN ret.val :
              i \notin Range(ret.val[r].indices)

C1_Witness ==
    /\ IsHNSW
    /\ ret.op = "query"
    /\ ret.err = NoError
    /\ history.deleted_ok # {}
    /\ history.saved_deleted_ok # {}
    /\ ret.args.k = Cardinality(LiveLabels(backend.index))

\* C3: insert of a non-empty batch of matching dimensionality on a mutable
\* graph backend built by from_vectors succeeds.
C3_InsertSucceeds ==
    (IsHNSW /\ ret.op = "insert"
        /\ Len(ret.args.vectors.rows) > 0
        /\ ret.args.vectors.cols = HNSW_dim(backend))
        => ret.err = NoError

\* C6: from_vectors fails with a DimensionError when the columns of vectors
\* differ from dim, so the dim() of a backend is the dimensionality its
\* configuration record holds.
C6_DimValidated ==
    IsHNSW =>
        /\ ret.op = "from_vectors" /\ ret.args.dim # ret.args.vectors.cols
              => ret.err = "DimensionError"
        /\ HNSW_dim(backend) = backend.arguments.dim

\* C7: a mutable graph backend built from N vectors has len() = N right
\* after construction; no query or threshold call changes len(); and len()
\* gets smaller only in a delete call.
C7_LenBookkeeping ==
    [][IsHNSW =>
        /\ ret.op = "from_vectors" => HNSW_len(backend) = Len(ret.args.vectors.rows)
        /\ ret'.op \in {"query", "threshold"} => HNSW_len(backend') = HNSW_len(backend)
        /\ HNSW_len(backend') < HNSW_len(backend) => ret'.op = "delete"]_vars

C7_Witness ==
    /\ IsHNSW
    /\ ret.op = "query"
    /\ ret.err = NoError
    /\ history.deleted_ok # {}
    /\ HNSW_len(backend) = MaxItems

----------------------------------------------------------------------------
(* Claims about the static graph backend (pynndescent.py) *)

\* C2: on a static graph backend every insert and every delete fails with
\* the unsupported-operation error and leaves the backend as it was, and
\* with it len(), dim(), the configuration record and every later query.
C2_StaticRejectsMutation ==
    [][(IsPyNN /\ ret'.op \in {"insert", "delete"})
          => /\ ret'.err = "NotImplementedError"
             /\ backend' = backend
             /\ disk' = disk]_vars

C2_Witness ==
    /\ IsPyNN
    /\ ret.op = "delete"
    /\ ret.err = "NotImplementedError"
    /\ PyNN_len(backend) = MaxItems

----------------------------------------------------------------------------
(* Claims about both variants *)

Metric(b) == IF b.backend_type = "HNSW" THEN b.arguments.space ELSE b.arguments.metric

Stored(b) == IF b.backend_type = "HNSW" THEN LiveLabels(b.index) ELSE NndLabels(b.index)

TrueDistance(b, q, label) ==
    IF b.backend_type = "HNSW"
    THEN hnsw_distance(b.index.space, q, b.index.data[label + 1])
    ELSE nnd_distance(b.index.metric, q, b.index._raw_data[label + 1])

\* Every answer the backend may give to query(vectors, k).
Answers(b, vectors, k) ==
    IF b.backend_type = "HNSW"
    THEN {HNSW_query(b, vectors, k, p) : p \in knn_picks(b.index, vectors, k)}
    ELSE {PyNN_query(b, vectors, k, p) :
             p \in nnd_picks(b.index, normalize_or_copy(vectors).array, k)}

Observed(b) ==
    [dim |-> IF b.backend_type = "HNSW" THEN HNSW_dim(b) ELSE PyNN_dim(b),
     backend_type |-> b.backend_type,
     len |-> IF b.backend_type = "HNSW" THEN HNSW_len(b) ELSE PyNN_len(b),
     answers |-> [vectors \in Probes |-> [k \in 1..MaxK |-> Answers(b, vectors, k)]]]

\* C4: save followed by load yields a backend with the dim(), backend_type(),
\* len() and query results (for a fixed probe set) of the backend saved, for
\* both variants, with or without the neighbour-graph file at load time.
C4_RoundTrip ==
    (ret.op = "load" /\ ret.err = NoError)
        => Observed(backend) = Observed(history.saved_from)

\* C5: threshold(vectors, t) returns one entry per query vector, each index
\* of an entry at distance below t and in ascending order of distance, and
\* the entry is all the stored items within t when these are at most 100.
C5_ThresholdExact ==
    ret.op = "threshold" =>
        /\ ret.err = NoError
        /\ Len(ret.val) = Len(ret.args.vectors.rows)
        /\ \A i \in DOMAIN ret.val :
              LET q == ret.args.vectors.rows[i]
                  entry == ret.val[i]
                  dist == [j \in DOMAIN entry |-> TrueDistance(backend, q, entry[j])]
                  within == {l \in Stored(backend) :
                                TrueDistance(backend, q, l) < ret.args.threshold}
              IN  /\ Range(entry) \subseteq Stored(backend)
                  /\ \A j \in DOMAIN entry : dist[j] < ret.args.threshold
                  /\ IsAscending(dist)
                  /\ Cardinality(within) <= OverFetch => Range(entry) = within

IsUnitFormOf(h, v) ==
    IF RowNorm(v) = 0 THEN h = ZeroRow
    ELSE h.axis = v.axis /\ Sign(h.val) = Sign(v.val) /\ isclose(RowNorm(h), ONE)

\* C10: query and threshold hand the index the unit-normalized form of the
\* caller's vectors when the metric is cosine, and the caller's vectors
\* with unchanged values for every other metric.
C10_HandedBatch ==
    ret.op \in {"query", "threshold"} =>
        LET v == ret.args.vectors
            h == ret.handed
        IN  IF Metric(backend) = "cosine"
            THEN /\ h.cols = v.cols
                 /\ DOMAIN h.rows = DOMAIN v.rows
                 /\ \A i \in DOMAIN v.rows : IsUnitFormOf(h.rows[i], v.rows[i])
            ELSE h = v

----------------------------------------------------------------------------
(* Claims about the normalizer (utils.py) *)

AsVector(array, i) == [ndim |-> 1, cols |-> array.cols, rows |-> <<array.rows[i]>>]

\* C8: normalize maps every row that is zero, or numerically
\* indistinguishable from zero, to the zero vector and every other row to a
\* unit vector, the same for a row of a batch as for that row passed alone.
C8_NormalizeRows ==
    ret.op = "normalize" =>
        \A i \in DOMAIN ret.val.rows :
            LET row == ret.args.vectors.rows[i]
                out == ret.val.rows[i]
            IN  /\ isclose(RowNorm(row), 0) => out = ZeroRow
                /\ ~isclose(RowNorm(row), 0) => RowNorm(out) = ONE
                /\ out = normalize(AsVector(ret.args.vectors, i), None).rows[1]

AllNonZeroRowsUnit(array) ==
    \A i \in DOMAIN array.rows :
        RowNorm(array.rows[i]) # 0
            => Abs(RowNorm(array.rows[i]) - ONE) <= ATol + (ONE \div RTolInv)

\* C9: normalize_or_copy returns its input itself when every non-zero row
\* is of unit length within tolerance (also when every row is zero), and
\* otherwise what normalize returns for the same input.
C9_NormalizeOrCopy ==
    ret.op = "normalize_or_copy" =>
        IF AllNonZeroRowsUnit(ret.args.vectors)
        THEN ret.val.is_input /\ ret.val.array = ret.args.vectors
        ELSE ~ret.val.is_input /\ ret.val.array = normalize(ret.args.vectors, None)

C9_Witness ==
    /\ ret.op = "normalize_or_copy"
    /\ ret.val.is_input
    /\ ret.args.vectors.ndim = 2
    /\ \E i \in DOMAIN ret.args.vectors.rows : ret.args.vectors.rows[i] = ZeroRow
    /\ \E i \in DOMAIN ret.args.vectors.rows : RowNorm(ret.args.vectors.rows[i]) = NearOne

====
